---- MODULE Spec2Model ----
(***************************************************************************)
(* SilentTrace audio capture layer (src/core_c/audio_capture.c).           *)
(*                                                                         *)
(* One process: main() sets up the ALSA device and the UNIX socket, waits  *)
(* for one client, then runs audio_capture_loop().  cleanup_and_exit() is  *)
(* both the SIGINT/SIGTERM handler and the function main() calls on every  *)
(* exit path, so it can run nested on top of itself.  The model keeps the  *)
(* program counter of main and a stack of interrupted handler frames; each *)
(* statement of cleanup_and_exit() is one step, so that a signal can land  *)
(* between any two of them.                                                *)
(*                                                                         *)
(* The audio geometry is scaled down (SAMPLE_RATE, FRAMES_PER_BUFFER); the *)
(* code's arithmetic on them is kept as written.                           *)
(***************************************************************************)
EXTENDS Integers, Sequences, FiniteSets, TLC

\* ---------------------------------------------------------------- sizes
\* #define SAMPLE_RATE 44100 and FRAMES_PER_BUFFER 2048, scaled down.
SAMPLE_RATE == 4
FRAMES_PER_BUFFER == 2
CHANNELS == 1
BUFFER_DURATION_SEC == 1

\* Calls of snd_pcm_readi one run of the model follows.
MaxReads == 4
\* Signals (SIGINT, SIGTERM) delivered in one run.
MaxSignals == 2
\* send() calls the socket buffer takes before send() blocks.
SockBufSends == 1
\* Snapshots one run of the model follows.
MaxSnapshots == 2

Signals == {"SIGINT", "SIGTERM"}
Resources == {"pcm", "client", "socket"}

\* size_t rolling_buffer_size = SAMPLE_RATE * BUFFER_DURATION_SEC;
rolling_buffer_size == SAMPLE_RATE * BUFFER_DURATION_SEC

\* The quotient rounded up where C's integer division truncates.
SendThreshold_RoundsUp(rate, fpb) == (rate + fpb - 1) \div fpb

\* if (chunks_processed >= (SAMPLE_RATE / FRAMES_PER_BUFFER))
SendThreshold(rate, fpb) == rate \div fpb

\* ------------------------------------------------------------ the device
\* The k-th sample the device delivers (k = 1, 2, ...), as an int16_t.  The
\* samples are pairwise different and never 0, so that a sample in the ring
\* buffer tells which capture it came from.
ToInt16(u) == IF u >= 32768 THEN u - 65536 ELSE u
PcmSample(k) == ToInt16((k * 40503) % 65536)

\* The frames one snd_pcm_readi call stores in buffer[] when `written`
\* samples were captured before it and it returns n frames.
PcmFrames(written, n) == [i \in 1..(n * CHANNELS) |-> PcmSample(written + i)]

\* ------------------------------------------------------------ the clock
\* Readings of clock_gettime(CLOCK_REALTIME): the wall clock can be set, so
\* two successive readings are in no fixed order.
ClockReadings ==
    { [tv_sec |-> 1, tv_nsec |-> 999000000],
      [tv_sec |-> 2, tv_nsec |-> 999999] }

\* return (uint64_t)(ts.tv_sec * 1000 + ts.tv_nsec / 1000000);
get_timestamp_ms(ts) == ts.tv_sec * 1000 + ts.tv_nsec \div 1000000

\* ------------------------------------------------------------- the wire
\* The bytes of an unsigned integer of `width` bytes as they lie in memory
\* on the (little-endian) host, and of an int16_t sample (S16_LE).
Pow256(i) == IF i = 0 THEN 1 ELSE IF i = 1 THEN 256 ELSE IF i = 2 THEN 65536 ELSE 16777216
UIntBytes(v, width) ==
    [i \in 1..width |-> IF i <= 4 THEN (v \div Pow256(i - 1)) % 256 ELSE 0]
Int16Bytes(x) ==
    LET u == IF x < 0 THEN x + 65536 ELSE x IN <<u % 256, u \div 256>>

RECURSIVE SampleBytes(_)
SampleBytes(samples) ==
    IF samples = <<>> THEN <<>>
    ELSE Int16Bytes(Head(samples)) \o SampleBytes(Tail(samples))

\* typedef struct { uint64_t timestamp; uint32_t sample_rate;
\*                  uint32_t buffer_length; uint32_t channels; } audio_header_t;
\* The four fields take 20 bytes; sizeof(audio_header_t) is 20 where uint64_t
\* is 4-byte aligned (i386) and 24 where it is 8-byte aligned (x86-64,
\* aarch64): the struct then ends in 4 padding bytes.
HeaderFieldBytes == 8 + 4 + 4 + 4
HeaderSizes == {20, 24}

\* The bytes send(client_fd, &header, sizeof(header), 0) hands to the socket:
\* the fields in declaration order, then the padding, which the code never
\* initialises (header is a stack object that is not memset).
HeaderBytes(h, size, pad) ==
    UIntBytes(h.timestamp, 8) \o UIntBytes(h.sample_rate, 4)
        \o UIntBytes(h.buffer_length, 4) \o UIntBytes(h.channels, 4)
        \o [i \in 1..(size - HeaderFieldBytes) |-> pad]

\* Values an uninitialised padding byte is seen to hold.
PadBytes == {0, 170}

\* The ring buffer as send(client_fd, buffer, data_size, 0) reads it: from
\* index 0, data_size = frames * sizeof(int16_t) * CHANNELS bytes.
PayloadSamples_FromIndexOne(rb, frames) ==
    [i \in 1..(frames * CHANNELS) |-> rb[i % (frames * CHANNELS)]]

PayloadSamples(rb, frames) == [i \in 1..(frames * CHANNELS) |-> rb[i - 1]]

\* -------------------------------------------------------- the ring buffer
\* for (i = 0; i < frames_read * CHANNELS; i++) {
\*     rolling_buffer[rolling_buffer_pos] = buffer[i];
\*     rolling_buffer_pos = (rolling_buffer_pos + 1) % rolling_buffer_size; }
\* A cursor that wraps one slot early (the modulus off by one).
NextPos_WrapsEarly(p) == (p + 1) % (rolling_buffer_size - 1)

NextPos(p) == (p + 1) % rolling_buffer_size

RECURSIVE CopyToRolling(_, _, _)
CopyToRolling(rb, p, buf) ==
    IF buf = <<>> THEN [buffer |-> rb, pos |-> p]
    ELSE CopyToRolling([rb EXCEPT ![p] = Head(buf)], NextPos(p), Tail(buf))

\* ---------------------------------------------------------------- state
VARIABLES
    pc,                 \* where main() is
    handlers,           \* stack of running signal handlers, innermost last
    proc,               \* "running", "exited" (exit() was called), "killed"
    exit_status,        \* the argument of exit(), -1 while running
    disposition,        \* per signal: "handler" or "default"
    signals,            \* signals delivered so far
    header_size,        \* sizeof(audio_header_t) of this build
    capture_handle,     \* "NULL" or "pcm"
    pcm_state,          \* state of the PCM: "none", "PREPARED", "XRUN"
    socket_fd,          \* -1 or the descriptor
    client_fd,          \* -1 or the descriptor
    running,            \* static volatile int running
    path,               \* SOCKET_PATH: "none", "foreign" (not ours), "own"
    listening,          \* listen() succeeded on socket_fd
    backlog,            \* connections waiting in the listen queue
    peer,               \* the accepted connection's other end: "none", "open", "closed"
    unread,             \* send() calls queued in the socket buffer, not yet received
    rolling_buffer,     \* int16_t rolling_buffer[rolling_buffer_size]
    rolling_buffer_pos,
    chunks_processed,
    header,             \* audio_header_t header of the send in progress
    wire,               \* bytes of the latest snapshot handed to the socket
    snapshot,           \* what the latest snapshot encoded: header and samples
    sent_ts,            \* header timestamps, in the order the headers were sent
    read_calls,         \* snd_pcm_readi calls so far
    last_read,          \* result of the latest call: "none", "ok", "underrun", "error"
    hard_failures,      \* consecutive hard read failures
    written,            \* samples copied into the ring buffer so far
    released,           \* per resource: close calls made on it
    handler_teardown,   \* a handler closed, unlinked or exited
    cause,              \* why main() went to cleanup_and_exit: "none", ...
    detector,           \* the consumer's DetectionEngine (spec section 4.4)
    cadence             \* the capture loop's counters at the program's own sizes

vars == << pc, handlers, proc, exit_status, disposition, signals,
           header_size, capture_handle, pcm_state, socket_fd, client_fd, running,
           path, listening, backlog, peer, unread, rolling_buffer,
           rolling_buffer_pos, chunks_processed, header, wire, snapshot, sent_ts,
           read_calls, last_read, hard_failures, written, released,
           handler_teardown, cause, detector, cadence >>

captureVars == << pc, handlers, proc, exit_status, disposition, signals,
                  header_size, capture_handle, pcm_state, socket_fd, client_fd,
                  running, path, listening, backlog, peer, unread, rolling_buffer,
                  rolling_buffer_pos, chunks_processed, header, wire, snapshot,
                  sent_ts, read_calls, last_read, hard_failures, written, released,
                  handler_teardown, cause >>

procVars == << proc, exit_status >>
sigVars == << disposition, signals >>
devVars == << capture_handle, pcm_state >>
sockVars == << socket_fd, client_fd, path, listening, backlog, peer, unread >>
ringVars == << rolling_buffer, rolling_buffer_pos, chunks_processed, written >>
readVars == << read_calls, last_read, hard_failures >>
sendVars == << header, wire, snapshot, sent_ts >>
ghostVars == << released, handler_teardown >>

NoHeader == [timestamp |-> 0, sample_rate |-> 0, buffer_length |-> 0, channels |-> 0]
NoSnapshot == [header |-> NoHeader, samples |-> <<>>, complete |-> FALSE, written |-> 0]

\* ------------------------------------------- the loop at its own sizes
\* #define SAMPLE_RATE 44100, #define FRAMES_PER_BUFFER 2048: the values the
\* program is compiled with, where SAMPLE_RATE and FRAMES_PER_BUFFER above
\* are scaled down.
CompiledSampleRate == 44100
CompiledFramesPerBuffer == 2048

\* size_t rolling_buffer_size = SAMPLE_RATE * BUFFER_DURATION_SEC;
compiled_buffer_size == CompiledSampleRate * BUFFER_DURATION_SEC

\* Snapshots one run of the loop sends.
MaxSends == 3

\* What snd_pcm_readi returns when it succeeds: the frames asked for, or
\* fewer (one).
ReadLengths == {CompiledFramesPerBuffer, 1}

\* The loop before its first read: the buffer is all zeros (memset).
CadenceStart ==
    [chunks_processed |-> 0, rolling_buffer_pos |-> 0, written |-> 0, reads |-> 0,
     sends |-> <<>>]

\* The buffer is written one slot after the other, round and round, so after
\* w samples it holds the samples numbered Oldest(w) + 1 to w, each in the
\* slot it was stored in, and zeros of the memset in the slots not reached.
Oldest(w) == IF w > compiled_buffer_size THEN w - compiled_buffer_size ELSE 0
ZerosLeft(w) == compiled_buffer_size - (w - Oldest(w))

\* Samples the buffer after w samples has in common with the buffer as it
\* was after w0 <= w samples.
SharedSamples(w0, w) == IF w0 > Oldest(w) THEN w0 - Oldest(w) ELSE 0

\* ------------------------------------------------------- DetectionEngine
\* The detector runs in the Python analysis layer, of which the repository
\* holds only the documentation: it is modelled from spec section 4.4, with
\* the configuration README.md documents.  Times are whole seconds.
THRESHOLD_DB == -40
REPETITION_THRESHOLD == 3
REPETITION_WINDOW_SEC == 10
ALERT_COOLDOWN_SEC == 5

\* Peaks one run of the detector evaluates.
MaxPeaks == 4
\* Peak magnitudes (dB) and the seconds from one peak to the next.
PeakLevels == {THRESHOLD_DB - 5, THRESHOLD_DB, THRESHOLD_DB + 5}
PeakGaps == {1, 4, 15}

\* The engine before its first peak, configured with repetition_threshold n.
\* queue and cooldown_until are its state; now, peaks and events record the
\* clock, the peaks it was given and the events it emitted.
DetectorIdle(n) ==
    [repetition_threshold |-> n, queue |-> <<>>, cooldown_until |-> 0,
     now |-> 0, peaks |-> <<>>, events |-> <<>>]

\* Rule 1: a peak counts when its magnitude is not below threshold_db.
OverThreshold_FiveBelow(db) == db >= THRESHOLD_DB - 5

OverThreshold(db) == db >= THRESHOLD_DB

\* Rules 2 to 4: cooldown lasts alert_cooldown_sec from the latest event.
InCooldown_Ignored(d, t) == FALSE

InCooldown(d, t) == t < d.cooldown_until

\* Rule 2: entries older than repetition_window_sec leave the queue.
Prune_KeepsAll(q, t) == q

Prune(q, t) == SelectSeq(q, LAMBDA ts : t - ts <= REPETITION_WINDOW_SEC)

\* Rule 2, an event is emitted at t and cooldown starts.
Emit(d, t, kind, q) ==
    [d EXCEPT !.queue = q,
              !.cooldown_until = t + ALERT_COOLDOWN_SEC,
              !.events = Append(@, [t |-> t, kind |-> kind])]

\* An engine that drops the peaks that arrive during cooldown.
Evaluate_CooldownDropsPeaks(d, t, db) ==
    IF ~OverThreshold(db) \/ InCooldown(d, t) THEN d
    ELSE LET q == Prune(Append(d.queue, t), t)
         IN IF Len(q) >= d.repetition_threshold
            THEN Emit(d, t, "alert", <<>>)
            ELSE Emit(d, t, "warning", q)

\* One evaluation: the peak of magnitude db at time t (rules 1 to 3).
Evaluate(d, t, db) ==
    IF ~OverThreshold(db) THEN d
    ELSE IF InCooldown(d, t) THEN [d EXCEPT !.queue = Append(@, t)]
    ELSE LET q == Prune(Append(d.queue, t), t)
         IN IF Len(q) >= d.repetition_threshold
            THEN Emit(d, t, "alert", <<>>)
            ELSE Emit(d, t, "warning", q)

\* The state once main() has installed its two handlers (lines 282-283).
\* The statics are as initialised (lines 36-39); the ring buffer is shown as
\* audio_capture_loop's memset leaves it (line 239).
CaptureInit ==
    /\ pc = "setup_audio"
    /\ handlers = <<>>
    /\ proc = "running"
    /\ exit_status = -1
    /\ disposition = [s \in Signals |-> "handler"]
    /\ signals = 0
    /\ header_size \in HeaderSizes
    /\ capture_handle = "NULL"
    /\ pcm_state = "none"
    /\ socket_fd = -1
    /\ client_fd = -1
    /\ running = 1
    /\ path \in {"none", "foreign"}
    /\ listening = FALSE
    /\ backlog = 0
    /\ peer = "none"
    /\ unread = 0
    /\ rolling_buffer = [i \in 0..(rolling_buffer_size - 1) |-> 0]
    /\ rolling_buffer_pos = 0
    /\ chunks_processed = 0
    /\ header = NoHeader
    /\ wire = <<>>
    /\ snapshot = NoSnapshot
    /\ sent_ts = <<>>
    /\ read_calls = 0
    /\ last_read = "none"
    /\ hard_failures = 0
    /\ written = 0
    /\ released = [r \in Resources |-> 0]
    /\ handler_teardown = FALSE
    /\ cause = "none"

Init ==
    /\ CaptureInit
    /\ detector = DetectorIdle(REPETITION_THRESHOLD)
    /\ cadence = CadenceStart

\* ------------------------------------------------------- who is running
InHandler == handlers # <<>>
CurPc == IF InHandler THEN handlers[Len(handlers)].pc ELSE pc
MainRuns(l) == proc = "running" /\ ~InHandler /\ pc = l
Runs(l) == proc = "running" /\ CurPc = l

\* The running frame moves to l.
Goto(l) ==
    IF InHandler
    THEN /\ handlers' = [handlers EXCEPT ![Len(handlers)].pc = l]
         /\ pc' = pc
    ELSE /\ pc' = l
         /\ handlers' = handlers

\* main() calls cleanup_and_exit() because of `why`.
MainCleanup(why) ==
    /\ pc' = "c_run"
    /\ cause' = why
    /\ handlers' = handlers

\* ------------------------------------------------------------- startup
\* setup_audio_capture() returns 0: the device is open, configured, prepared.
SetupAudioOk ==
    /\ MainRuns("setup_audio")
    /\ capture_handle' = "pcm"
    /\ pcm_state' = "PREPARED"
    /\ pc' = "sock_create"
    /\ UNCHANGED << handlers, procVars, sigVars, header_size, detector, cadence,
                    socket_fd, client_fd,
                    running, path, listening, backlog, peer, unread, ringVars,
                    sendVars, readVars, ghostVars, cause >>

\* snd_pcm_open fails: capture_handle stays NULL, setup_audio_capture returns
\* -1 and main() calls cleanup_and_exit(1).
SetupAudioOpenFail ==
    /\ MainRuns("setup_audio")
    /\ MainCleanup("startup")
    /\ UNCHANGED << procVars, sigVars, header_size, detector, cadence,
                    devVars, socket_fd, client_fd,
                    running, path, listening, backlog, peer, unread, ringVars,
                    sendVars, readVars, ghostVars >>

\* main() reporting the failure without calling cleanup_and_exit: it goes on
\* to setup_unix_socket().
SetupAudioConfigFail_Continues ==
    /\ MainRuns("setup_audio")
    /\ capture_handle' = "pcm"
    /\ pcm_state' = "OPEN"
    /\ pc' = "sock_create"
    /\ cause' = "startup"
    /\ UNCHANGED << handlers, procVars, sigVars, header_size, detector, cadence,
                    socket_fd, client_fd,
                    running, path, listening, backlog, peer, unread, ringVars,
                    sendVars, readVars, ghostVars >>

\* A step after snd_pcm_open fails (hw_params ..., snd_pcm_prepare): the
\* handle stays open, setup_audio_capture returns -1.
SetupAudioConfigFail ==
    /\ MainRuns("setup_audio")
    /\ capture_handle' = "pcm"
    /\ pcm_state' = "OPEN"
    /\ MainCleanup("startup")
    /\ UNCHANGED << procVars, sigVars, header_size, detector, cadence, socket_fd, client_fd,
                    running, path, listening, backlog, peer, unread, ringVars,
                    sendVars, readVars, ghostVars >>

\* socket_fd = socket(AF_UNIX, SOCK_STREAM, 0);
SocketCreateOk ==
    /\ MainRuns("sock_create")
    /\ socket_fd' = 3
    /\ pc' = "sock_unlink"
    /\ UNCHANGED << handlers, procVars, sigVars, header_size, detector, cadence,
                    devVars, client_fd,
                    running, path, listening, backlog, peer, unread, ringVars,
                    sendVars, readVars, ghostVars, cause >>

SocketCreateFail ==
    /\ MainRuns("sock_create")
    /\ socket_fd' = -1
    /\ MainCleanup("startup")
    /\ UNCHANGED << procVars, sigVars, header_size, detector, cadence, devVars, client_fd,
                    running, path, listening, backlog, peer, unread, ringVars,
                    sendVars, readVars, ghostVars >>

\* unlink(SOCKET_PATH) before bind.
SocketUnlink ==
    /\ MainRuns("sock_unlink")
    /\ path' = "none"
    /\ pc' = "sock_bind"
    /\ UNCHANGED << handlers, procVars, sigVars, header_size, detector, cadence,
                    devVars, socket_fd,
                    client_fd, running, listening, backlog, peer, unread, ringVars,
                    sendVars, readVars, ghostVars, cause >>

\* bind() creates the socket file.
SocketBindOk ==
    /\ MainRuns("sock_bind")
    /\ path = "none"
    /\ path' = "own"
    /\ pc' = "sock_listen"
    /\ UNCHANGED << handlers, procVars, sigVars, header_size, detector, cadence,
                    devVars, socket_fd,
                    client_fd, running, listening, backlog, peer, unread, ringVars,
                    sendVars, readVars, ghostVars, cause >>

SocketBindFail ==
    /\ MainRuns("sock_bind")
    /\ MainCleanup("startup")
    /\ UNCHANGED << procVars, sigVars, header_size, detector, cadence,
                    devVars, socket_fd, client_fd,
                    running, path, listening, backlog, peer, unread, ringVars,
                    sendVars, readVars, ghostVars >>

\* listen(socket_fd, 1)
SocketListenOk ==
    /\ MainRuns("sock_listen")
    /\ listening' = TRUE
    /\ pc' = "accept"
    /\ UNCHANGED << handlers, procVars, sigVars, header_size, detector, cadence,
                    devVars, socket_fd,
                    client_fd, running, path, backlog, peer, unread, ringVars,
                    sendVars, readVars, ghostVars, cause >>

SocketListenFail ==
    /\ MainRuns("sock_listen")
    /\ MainCleanup("startup")
    /\ UNCHANGED << procVars, sigVars, header_size, detector, cadence,
                    devVars, socket_fd, client_fd,
                    running, path, listening, backlog, peer, unread, ringVars,
                    sendVars, readVars, ghostVars >>

\* client_fd = accept(socket_fd, NULL, NULL): blocks until a connection waits.
AcceptOk_WhileServing ==
    /\ MainRuns("accept") \/ MainRuns("read")
    /\ backlog > 0
    /\ backlog' = backlog - 1
    /\ client_fd' = 4
    /\ peer' = "open"
    /\ pc' = "read"
    /\ UNCHANGED << handlers, procVars, sigVars, header_size, detector, cadence,
                    devVars, socket_fd,
                    running, path, listening, unread, ringVars,
                    sendVars, readVars, ghostVars, cause >>

AcceptOk ==
    /\ MainRuns("accept")
    /\ backlog > 0
    /\ backlog' = backlog - 1
    /\ client_fd' = 4
    /\ peer' = "open"
    /\ pc' = "read"
    /\ UNCHANGED << handlers, procVars, sigVars, header_size, detector, cadence,
                    devVars, socket_fd,
                    running, path, listening, unread, ringVars,
                    sendVars, readVars, ghostVars, cause >>

\* accept() returns -1: wait_for_client returns -1, main() cleans up.
AcceptFail ==
    /\ MainRuns("accept")
    /\ client_fd' = -1
    /\ MainCleanup("accept")
    /\ UNCHANGED << procVars, sigVars, header_size, detector, cadence, devVars, socket_fd,
                    running, path, listening, backlog, peer, unread, ringVars,
                    sendVars, readVars, ghostVars >>

\* ------------------------------------------------------- the consumer
\* A consumer connects to the listening socket (listen backlog of 1).
ConsumerConnect ==
    /\ proc = "running"
    /\ listening
    /\ backlog < 1
    /\ backlog' = backlog + 1
    /\ UNCHANGED << pc, handlers, procVars, sigVars, header_size, detector, cadence,
                    devVars, socket_fd,
                    client_fd, running, path, listening, peer, unread, ringVars,
                    sendVars, readVars, ghostVars, cause >>

\* The consumer receives what one send() queued.
ConsumerRecv ==
    /\ proc = "running"
    /\ peer = "open"
    /\ unread > 0
    /\ unread' = unread - 1
    /\ UNCHANGED << pc, handlers, procVars, sigVars, header_size, detector, cadence,
                    devVars, socket_fd,
                    client_fd, running, path, listening, backlog, peer, ringVars,
                    sendVars, readVars, ghostVars, cause >>

\* The consumer closes its end of the connection.
ConsumerClose ==
    /\ proc = "running"
    /\ peer = "open"
    /\ peer' = "closed"
    /\ UNCHANGED << pc, handlers, procVars, sigVars, header_size, detector, cadence,
                    devVars, socket_fd,
                    client_fd, running, path, listening, backlog, unread, ringVars,
                    sendVars, readVars, ghostVars, cause >>

\* ---------------------------------------------------- audio_capture_loop
\* snd_pcm_readi returns n > 0 frames: they are copied into the ring buffer,
\* chunks_processed++, and at the threshold the snapshot is sent next.
\* A capture that goes on while send_audio_data runs (a capture thread
\* beside the transport, with no copy taken for the payload).
ReadOk_DuringSend(n) ==
    /\ proc = "running" /\ ~InHandler /\ pc \in {"read", "send_header", "send_data"}
    /\ running = 1
    /\ read_calls < MaxReads
    /\ capture_handle = "pcm" /\ pcm_state = "PREPARED"
    /\ LET r == CopyToRolling(rolling_buffer, rolling_buffer_pos, PcmFrames(written, n))
       IN /\ rolling_buffer' = r.buffer
          /\ rolling_buffer_pos' = r.pos
    /\ written' = written + n * CHANNELS
    /\ chunks_processed' = chunks_processed + 1
    /\ pc' = IF pc # "read" THEN pc
             ELSE IF chunks_processed + 1 >= SendThreshold(SAMPLE_RATE, FRAMES_PER_BUFFER)
                  THEN "send_header" ELSE "read"
    /\ read_calls' = read_calls + 1
    /\ last_read' = "ok"
    /\ hard_failures' = 0
    /\ UNCHANGED << handlers, procVars, sigVars, header_size, detector, cadence, devVars, sockVars,
                    running, sendVars, ghostVars, cause >>

ReadOk(n) ==
    /\ MainRuns("read")
    /\ running = 1
    /\ read_calls < MaxReads
    /\ capture_handle = "pcm" /\ pcm_state = "PREPARED"
    /\ LET r == CopyToRolling(rolling_buffer, rolling_buffer_pos, PcmFrames(written, n))
       IN /\ rolling_buffer' = r.buffer
          /\ rolling_buffer_pos' = r.pos
    /\ written' = written + n * CHANNELS
    /\ chunks_processed' = chunks_processed + 1
    /\ pc' = IF chunks_processed + 1 >= SendThreshold(SAMPLE_RATE, FRAMES_PER_BUFFER)
             THEN "send_header" ELSE "read"
    /\ read_calls' = read_calls + 1
    /\ last_read' = "ok"
    /\ hard_failures' = 0
    /\ UNCHANGED << handlers, procVars, sigVars, header_size, detector, cadence, devVars, sockVars,
                    running, sendVars, ghostVars, cause >>

\* The underrun branch without its `continue`: the iteration falls through,
\* copies nothing (frames_read < 0) and counts as a processed chunk.
ReadUnderrun_NoContinue ==
    /\ MainRuns("read")
    /\ running = 1
    /\ read_calls < MaxReads
    /\ capture_handle = "pcm" /\ pcm_state = "PREPARED"
    /\ pcm_state' = "PREPARED"
    /\ chunks_processed' = chunks_processed + 1
    /\ pc' = IF chunks_processed + 1 >= SendThreshold(SAMPLE_RATE, FRAMES_PER_BUFFER)
             THEN "send_header" ELSE "read"
    /\ read_calls' = read_calls + 1
    /\ last_read' = "underrun"
    /\ UNCHANGED << handlers, procVars, sigVars, header_size, detector, cadence,
                    capture_handle, sockVars,
                    running, rolling_buffer, rolling_buffer_pos, written, sendVars,
                    hard_failures, ghostVars, cause >>

\* snd_pcm_readi returns -EPIPE (the PCM is in XRUN): snd_pcm_prepare, continue.
ReadUnderrun ==
    /\ MainRuns("read")
    /\ running = 1
    /\ read_calls < MaxReads
    /\ capture_handle = "pcm" /\ pcm_state = "PREPARED"
    /\ pcm_state' = "PREPARED"
    /\ pc' = "read"
    /\ read_calls' = read_calls + 1
    /\ last_read' = "underrun"
    /\ UNCHANGED << handlers, procVars, sigVars, header_size, detector, cadence,
                    capture_handle, sockVars,
                    running, ringVars, sendVars, hard_failures, ghostVars, cause >>

\* snd_pcm_readi returns another negative value: break, free the buffers,
\* main() calls cleanup_and_exit(0).
ReadError ==
    /\ MainRuns("read")
    /\ running = 1
    /\ read_calls < MaxReads
    /\ capture_handle = "pcm" /\ pcm_state = "PREPARED"
    /\ read_calls' = read_calls + 1
    /\ last_read' = "error"
    /\ hard_failures' = hard_failures + 1
    /\ MainCleanup("read_error")
    /\ UNCHANGED << procVars, sigVars, header_size, detector, cadence, devVars, sockVars,
                    running, ringVars, sendVars, ghostVars >>

\* send_audio_data, first half: the header is filled in and sent whole.
SendHeaderOk ==
    /\ MainRuns("send_header")
    /\ Len(sent_ts) < MaxSnapshots
    /\ peer = "open"
    /\ unread < SockBufSends
    /\ \E ts \in ClockReadings, pad \in PadBytes :
         LET h == [timestamp |-> get_timestamp_ms(ts),
                   sample_rate |-> SAMPLE_RATE,
                   buffer_length |-> rolling_buffer_size \div CHANNELS,
                   channels |-> CHANNELS]
         IN /\ header' = h
            /\ wire' = HeaderBytes(h, header_size, pad)
            /\ snapshot' = [header |-> h, samples |-> <<>>, complete |-> FALSE,
                            written |-> written]
            /\ sent_ts' = Append(sent_ts, h.timestamp)
    /\ unread' = unread + 1
    /\ pc' = "send_data"
    /\ UNCHANGED << handlers, procVars, sigVars, header_size, detector, cadence,
                    devVars, socket_fd,
                    client_fd, running, path, listening, backlog, peer, ringVars,
                    readVars, ghostVars, cause >>

\* send_audio_data, second half: the ring buffer is sent whole; back in the
\* loop chunks_processed = 0.
SendDataOk ==
    /\ MainRuns("send_data")
    /\ peer = "open"
    /\ unread < SockBufSends
    /\ LET samples == PayloadSamples(rolling_buffer, header.buffer_length)
       IN /\ wire' = wire \o SampleBytes(samples)
          /\ snapshot' = [header |-> header, samples |-> samples, complete |-> TRUE,
                          written |-> snapshot.written]
    /\ unread' = unread + 1
    /\ chunks_processed' = 0
    /\ pc' = "read"
    /\ UNCHANGED << handlers, procVars, sigVars, header_size, detector, cadence,
                    devVars, socket_fd,
                    client_fd, running, path, listening, backlog, peer,
                    rolling_buffer, rolling_buffer_pos, written, header, sent_ts,
                    readVars, ghostVars, cause >>

\* send() returns an error or a short count: send_audio_data returns -1, the
\* loop breaks, the buffers are freed and main() calls cleanup_and_exit(0).
SendFail ==
    /\ proc = "running" /\ ~InHandler /\ pc \in {"send_header", "send_data"}
    /\ peer = "open"
    /\ MainCleanup("send_error")
    /\ UNCHANGED << procVars, sigVars, header_size, detector, cadence, devVars, sockVars,
                    running, ringVars, sendVars, readVars, ghostVars >>

\* send() on a connection the consumer has closed raises SIGPIPE (the flags
\* are 0 and no handler is installed for it): the process is killed.
SendSigpipe ==
    /\ proc = "running" /\ ~InHandler /\ pc \in {"send_header", "send_data"}
    /\ peer = "closed"
    /\ proc' = "killed"
    /\ cause' = "sigpipe"
    /\ UNCHANGED << pc, handlers, exit_status, sigVars, header_size, detector, cadence,
                    devVars, sockVars,
                    running, ringVars, sendVars, readVars, ghostVars >>

\* ------------------------------------------------------ cleanup_and_exit
\* running = 0;
CleanupRun ==
    /\ Runs("c_run")
    /\ running' = 0
    /\ Goto("c_handle")
    /\ UNCHANGED << procVars, sigVars, header_size, detector, cadence, devVars, sockVars, ringVars,
                    sendVars, readVars, ghostVars, cause >>

\* if (capture_handle) { snd_pcm_close(capture_handle);
CleanupHandleClose ==
    /\ Runs("c_handle")
    /\ capture_handle # "NULL"
    /\ pcm_state' = "closed"
    /\ released' = [released EXCEPT !["pcm"] = @ + 1]
    /\ handler_teardown' = (handler_teardown \/ InHandler)
    /\ Goto("c_handle_null")
    /\ UNCHANGED << procVars, sigVars, header_size, detector, cadence,
                    capture_handle, sockVars, running,
                    ringVars, sendVars, readVars, cause >>

CleanupHandleSkip ==
    /\ Runs("c_handle")
    /\ capture_handle = "NULL"
    /\ Goto("c_client")
    /\ UNCHANGED << procVars, sigVars, header_size, detector, cadence, devVars, sockVars, running,
                    ringVars, sendVars, readVars, ghostVars, cause >>

\* capture_handle = NULL; }
CleanupHandleNull ==
    /\ Runs("c_handle_null")
    /\ capture_handle' = "NULL"
    /\ Goto("c_client")
    /\ UNCHANGED << procVars, sigVars, header_size, detector, cadence,
                    pcm_state, sockVars, running,
                    ringVars, sendVars, readVars, ghostVars, cause >>

\* if (client_fd >= 0) { close(client_fd);
CleanupClientClose ==
    /\ Runs("c_client")
    /\ client_fd >= 0
    /\ released' = [released EXCEPT !["client"] = @ + 1]
    /\ handler_teardown' = (handler_teardown \/ InHandler)
    /\ Goto("c_client_null")
    /\ UNCHANGED << procVars, sigVars, header_size, detector, cadence, devVars, sockVars, running,
                    ringVars, sendVars, readVars, cause >>

CleanupClientSkip ==
    /\ Runs("c_client")
    /\ client_fd < 0
    /\ Goto("c_socket")
    /\ UNCHANGED << procVars, sigVars, header_size, detector, cadence, devVars, sockVars, running,
                    ringVars, sendVars, readVars, ghostVars, cause >>

\* client_fd = -1; }
CleanupClientNull ==
    /\ Runs("c_client_null")
    /\ client_fd' = -1
    /\ Goto("c_socket")
    /\ UNCHANGED << procVars, sigVars, header_size, detector, cadence,
                    devVars, socket_fd, path, listening,
                    backlog, peer, unread, running, ringVars, sendVars, readVars,
                    ghostVars, cause >>

\* if (socket_fd >= 0) { close(socket_fd);
CleanupSocketClose ==
    /\ Runs("c_socket")
    /\ socket_fd >= 0
    /\ listening' = FALSE
    /\ backlog' = 0
    /\ released' = [released EXCEPT !["socket"] = @ + 1]
    /\ handler_teardown' = (handler_teardown \/ InHandler)
    /\ Goto("c_socket_null")
    /\ UNCHANGED << procVars, sigVars, header_size, detector, cadence,
                    devVars, socket_fd, client_fd, path,
                    peer, unread, running, ringVars, sendVars, readVars, cause >>

CleanupSocketSkip ==
    /\ Runs("c_socket")
    /\ socket_fd < 0
    /\ Goto("c_unlink")
    /\ UNCHANGED << procVars, sigVars, header_size, detector, cadence, devVars, sockVars, running,
                    ringVars, sendVars, readVars, ghostVars, cause >>

\* socket_fd = -1; }
CleanupSocketNull ==
    /\ Runs("c_socket_null")
    /\ socket_fd' = -1
    /\ Goto("c_unlink")
    /\ UNCHANGED << procVars, sigVars, header_size, detector, cadence,
                    devVars, client_fd, path, listening,
                    backlog, peer, unread, running, ringVars, sendVars, readVars,
                    ghostVars, cause >>

\* An unlink that removes only the file this process bound.
CleanupUnlink_OnlyOwnFile ==
    /\ Runs("c_unlink")
    /\ path' = IF path = "own" THEN "none" ELSE path
    /\ handler_teardown' = (handler_teardown \/ InHandler)
    /\ Goto("c_exit")
    /\ UNCHANGED << procVars, sigVars, header_size, detector, cadence,
                    devVars, socket_fd, client_fd,
                    listening, backlog, peer, unread, running, ringVars, sendVars,
                    readVars, released, cause >>

\* unlink(SOCKET_PATH);
CleanupUnlink ==
    /\ Runs("c_unlink")
    /\ path' = "none"
    /\ handler_teardown' = (handler_teardown \/ InHandler)
    /\ Goto("c_exit")
    /\ UNCHANGED << procVars, sigVars, header_size, detector, cadence,
                    devVars, socket_fd, client_fd,
                    listening, backlog, peer, unread, running, ringVars, sendVars,
                    readVars, released, cause >>

\* exit(sig): the argument main() passes (1 after a failed startup step or
\* accept, 0 after the loop), the signal number in a handler.
CleanupExit_ExitsWithArgument ==
    /\ Runs("c_exit")
    /\ proc' = "exited"
    /\ exit_status' = IF InHandler
                      THEN (IF handlers[Len(handlers)].sig = "SIGINT" THEN 2 ELSE 15)
                      ELSE IF cause \in {"startup", "accept"} THEN 1 ELSE 0
    /\ handler_teardown' = (handler_teardown \/ InHandler)
    /\ UNCHANGED << pc, handlers, sigVars, header_size, detector, cadence,
                    devVars, sockVars, running,
                    ringVars, sendVars, readVars, released, cause >>

\* exit(0);
CleanupExit ==
    /\ Runs("c_exit")
    /\ proc' = "exited"
    /\ exit_status' = 0
    /\ handler_teardown' = (handler_teardown \/ InHandler)
    /\ UNCHANGED << pc, handlers, sigVars, header_size, detector, cadence,
                    devVars, sockVars, running,
                    ringVars, sendVars, readVars, released, cause >>

\* ---------------------------------------------------------------- signals
\* signal(SIGINT, cleanup_and_exit); signal(SIGTERM, cleanup_and_exit);
\* The Makefile compiles with -std=c99, under which glibc's signal() has
\* System V semantics: the disposition is reset to the default when the
\* handler is entered and the signal is not blocked meanwhile.  (With BSD
\* semantics a signal whose handler runs stays blocked; as no handler ever
\* returns, those runs are the runs below in which that signal is not sent
\* again.)  The handler runs on top of whatever it interrupted.
SignalHandled_FlagOnly(sig) ==
    /\ proc = "running"
    /\ signals < MaxSignals
    /\ disposition[sig] = "handler"
    /\ running' = 0
    /\ signals' = signals + 1
    /\ UNCHANGED << pc, handlers, procVars, disposition, header_size, detector, cadence, devVars,
                    sockVars, ringVars, sendVars, readVars, ghostVars, cause >>

SignalHandled(sig) ==
    /\ proc = "running"
    /\ signals < MaxSignals
    /\ disposition[sig] = "handler"
    /\ handlers' = Append(handlers, [sig |-> sig, pc |-> "c_run"])
    /\ disposition' = [disposition EXCEPT ![sig] = "default"]
    /\ signals' = signals + 1
    /\ UNCHANGED << pc, procVars, header_size, detector, cadence, devVars, sockVars, running,
                    ringVars, sendVars, readVars, ghostVars, cause >>

\* The default action of SIGINT and SIGTERM ends the process at once.
SignalKills(sig) ==
    /\ proc = "running"
    /\ signals < MaxSignals
    /\ disposition[sig] = "default"
    /\ proc' = "killed"
    /\ signals' = signals + 1
    /\ UNCHANGED << pc, handlers, exit_status, disposition, header_size, detector, cadence,
                    devVars, sockVars, running, ringVars, sendVars, readVars,
                    ghostVars, cause >>

\* ------------------------------------------------------------------ Next
Next ==
    \/ SetupAudioOk
    \/ SetupAudioOpenFail
    \/ SetupAudioConfigFail
    \/ SocketCreateOk
    \/ SocketCreateFail
    \/ SocketUnlink
    \/ SocketBindOk
    \/ SocketBindFail
    \/ SocketListenOk
    \/ SocketListenFail
    \/ AcceptOk
    \/ AcceptFail
    \/ ConsumerConnect
    \/ ConsumerRecv
    \/ ConsumerClose
    \/ \E n \in 1..FRAMES_PER_BUFFER : ReadOk(n)
    \/ ReadUnderrun
    \/ ReadError
    \/ SendHeaderOk
    \/ SendDataOk
    \/ SendFail
    \/ SendSigpipe
    \/ CleanupRun
    \/ CleanupHandleClose
    \/ CleanupHandleSkip
    \/ CleanupHandleNull
    \/ CleanupClientClose
    \/ CleanupClientSkip
    \/ CleanupClientNull
    \/ CleanupSocketClose
    \/ CleanupSocketSkip
    \/ CleanupSocketNull
    \/ CleanupUnlink
    \/ CleanupExit
    \/ \E sig \in Signals : SignalHandled(sig)
    \/ \E sig \in Signals : SignalKills(sig)

\* The capture process; the detector is another process and stays idle here.
Spec == Init /\ [][Next]_vars

\* cleanup_and_exit is straight-line code: once entered, by main() or as a
\* handler, the process keeps being scheduled until exit(0) or until it is
\* killed.  Nothing is assumed of the device, the consumer or further signals.
CleanupStep ==
    \/ CleanupRun
    \/ CleanupHandleClose \/ CleanupHandleSkip \/ CleanupHandleNull
    \/ CleanupClientClose \/ CleanupClientSkip \/ CleanupClientNull
    \/ CleanupSocketClose \/ CleanupSocketSkip \/ CleanupSocketNull
    \/ CleanupUnlink
    \/ CleanupExit

\* The fair runs are those of the build whose header has no padding (the
\* size of the header plays no part in what is scheduled).
FairInit == Init /\ header_size = 20

FairSpec == FairInit /\ [][Next]_vars /\ WF_vars(CleanupStep)

\* ---------------------------------------- the loop's steps at its sizes
\* One iteration whose snd_pcm_readi returns n frames: the copy loop moves
\* the cursor n * CHANNELS slots on, and the chunk is counted.
CadenceRead(n) ==
    /\ Len(cadence.sends) < MaxSends
    /\ cadence.chunks_processed < SendThreshold(CompiledSampleRate, CompiledFramesPerBuffer)
    /\ cadence' =
         [cadence EXCEPT
            !.rolling_buffer_pos = (@ + n * CHANNELS) % compiled_buffer_size,
            !.written = @ + n * CHANNELS,
            !.reads = @ + 1,
            !.chunks_processed = @ + 1]
    /\ UNCHANGED << captureVars, detector >>

\* if (chunks_processed >= SAMPLE_RATE / FRAMES_PER_BUFFER): the whole buffer
\* is sent from index 0 and chunks_processed = 0.  A send records the reads
\* and samples so far, the cursor, the samples in the payload, the zeros of
\* the memset among them and the samples also in the previous payload.
CadenceSend ==
    /\ Len(cadence.sends) < MaxSends
    /\ cadence.chunks_processed >= SendThreshold(CompiledSampleRate, CompiledFramesPerBuffer)
    /\ LET w == cadence.written
           sent == [reads |-> cadence.reads,
                    written |-> w,
                    pos |-> cadence.rolling_buffer_pos,
                    length |-> (compiled_buffer_size \div CHANNELS) * CHANNELS,
                    zeros |-> ZerosLeft(w),
                    shared |-> IF cadence.sends = <<>> THEN 0
                               ELSE SharedSamples(
                                      cadence.sends[Len(cadence.sends)].written, w)]
       IN cadence' = [cadence EXCEPT !.sends = Append(@, sent),
                                     !.chunks_processed = 0]
    /\ UNCHANGED << captureVars, detector >>

CadenceInit ==
    /\ CaptureInit
    /\ header_size = 24 /\ path = "none"
    /\ detector = DetectorIdle(REPETITION_THRESHOLD)
    /\ cadence = CadenceStart

CadenceNext ==
    \/ \E n \in ReadLengths : CadenceRead(n)
    \/ CadenceSend

\* The capture loop alone, with the compiled sizes, over every sequence of
\* full and one-frame reads up to MaxSends snapshots.
CadenceSpec == CadenceInit /\ [][CadenceNext]_vars

\* ------------------------------------------------- the detector's steps
\* The engine is given the peak of magnitude db at the present time, and gap
\* seconds pass until the next one.
DetectorPeak(db, gap) ==
    /\ Len(detector.peaks) < MaxPeaks
    /\ LET t == detector.now
           d == Evaluate(detector, t, db)
       IN detector' = [d EXCEPT !.peaks = Append(@, [t |-> t, db |-> db]),
                                !.now = t + gap]

DetectorInit ==
    /\ CaptureInit
    /\ header_size = 24 /\ path = "none"
    /\ cadence = CadenceStart
    /\ \E n \in 1..REPETITION_THRESHOLD : detector = DetectorIdle(n)

DetectorNext ==
    /\ \E db \in PeakLevels, gap \in PeakGaps : DetectorPeak(db, gap)
    /\ UNCHANGED << captureVars, cadence >>

\* The detector alone, fed every sequence of up to MaxPeaks peaks.
DetectorSpec == DetectorInit /\ [][DetectorNext]_vars

\* ------------------------------------------------------------ vocabulary
CleanupPcs == {"c_run", "c_handle", "c_handle_null", "c_client", "c_client_null",
               "c_socket", "c_socket_null", "c_unlink", "c_exit"}
SendPcs == {"send_header", "send_data"}

\* main() is past startup and in its normal path (no cleanup_and_exit runs).
Serving == proc = "running" /\ ~InHandler /\ pc \in {"accept", "read"} \cup SendPcs

\* main() waits on the consumer: in accept() with nobody connecting, or in
\* send() with the socket buffer full of what the consumer has not received.
BlockedOnConsumer ==
    \/ pc = "accept" /\ backlog = 0
    \/ pc \in SendPcs /\ peer = "open" /\ unread >= SockBufSends

\* Decoding by the layout timestamp(8) sample_rate(4) buffer_length(4)
\* channels(4), then buffer_length * channels samples of 2 bytes.
UIntFromBytes(w, first, width) ==
    LET b(i) == w[first + i] IN b(0) + 256 * b(1) + 65536 * b(2) + 16777216 * b(3)
Int16FromBytes(lo, hi) == ToInt16(lo + 256 * hi)
DecodeSnapshot(w) ==
    LET h == [timestamp |-> UIntFromBytes(w, 1, 8),
              sample_rate |-> UIntFromBytes(w, 9, 4),
              buffer_length |-> UIntFromBytes(w, 13, 4),
              channels |-> UIntFromBytes(w, 17, 4)]
        n == h.buffer_length * h.channels
    IN [header |-> h,
        samples |-> [i \in 1..n |-> Int16FromBytes(w[HeaderFieldBytes + 2 * i - 1],
                                                   w[HeaderFieldBytes + 2 * i])],
        length |-> HeaderFieldBytes + 2 * n]

\* ------------------------------------------------------------------ claims

\* C1: when sending a snapshot fails (short write, error, or the consumer has
\* disconnected) the process does not terminate: it stays running and main()
\* is back in its serving path, not in cleanup_and_exit.
C1_SendFailureIsNotFatal ==
    cause \in {"send_error", "sigpipe"} => (proc = "running" /\ pc \notin CleanupPcs)

\* C2: capture never blocks on the consumer: once startup is done and while
\* the process serves, main() is never waiting on the consumer (no consumer
\* connected yet, or a consumer that does not drain the socket).
C2_CaptureNeverBlocksOnConsumer ==
    Serving => ~BlockedOnConsumer

\* C3: the signal handler only sets the shutdown flag: no close of the device
\* or of a socket, no unlink of the socket path and no exit happens inside
\* the handler.
C3_HandlerOnlySetsFlag ==
    ~handler_teardown

\* C4: cleanup is exactly-once under any interleaving of shutdown triggers:
\* the device handle, the client connection and the listening socket are each
\* released at most once, and the socket path is removed once the process
\* has exited.
C4_CleanupExactlyOnce ==
    /\ \A r \in Resources : released[r] <= 1
    /\ proc = "exited" => path = "none"

\* C5: ring buffer wrap: once at least rolling_buffer_size samples were
\* written, the ring buffer holds exactly the last rolling_buffer_size samples
\* written, the j-th oldest of them at cyclic offset j from the write cursor,
\* and no older sample is left in it.
C5_RingHoldsLastCapacity ==
    written >= rolling_buffer_size =>
        /\ \A j \in 0..(rolling_buffer_size - 1) :
             rolling_buffer[(rolling_buffer_pos + j) % rolling_buffer_size]
                 = PcmSample(written - rolling_buffer_size + 1 + j)
        /\ \A k \in 1..(written - rolling_buffer_size) :
             \A i \in 0..(rolling_buffer_size - 1) : rolling_buffer[i] # PcmSample(k)

\* C5 witness: the buffer has wrapped at least once and the cursor is past
\* index 0 (K >= 1, R > 0), after a read that was shorter than a full one.
C5_Wrapped ==
    /\ written > rolling_buffer_size
    /\ rolling_buffer_pos # 0
    /\ written % FRAMES_PER_BUFFER # 0

\* C6: on a buffer underrun (snd_pcm_readi returns -EPIPE) the device is
\* prepared again and the loop goes on to the next read: the process keeps
\* running, nothing is sent, and the ring buffer, the write cursor and the
\* chunk counter are as before the failed read.
C6_UnderrunRecovered ==
    [][(read_calls' = read_calls + 1 /\ last_read' = "underrun") =>
          /\ proc' = "running" /\ pc' = "read" /\ cause' = cause
          /\ capture_handle' = "pcm" /\ pcm_state' = "PREPARED"
          /\ rolling_buffer' = rolling_buffer
          /\ rolling_buffer_pos' = rolling_buffer_pos
          /\ chunks_processed' = chunks_processed
          /\ written' = written
          /\ sent_ts' = sent_ts /\ wire' = wire /\ unread' = unread]_vars

\* C6 witness: an underrun happened after samples were captured, and the loop
\* is at its next read.
C6_UnderrunSeen ==
    /\ last_read = "underrun"
    /\ written > 0 /\ chunks_processed > 0
    /\ proc = "running" /\ ~InHandler /\ pc = "read"

\* C7: capture terminates because of read errors only after repeated
\* consecutive hard read failures (at least two).
C7_OnlyRepeatedFailuresTerminate ==
    cause = "read_error" => hard_failures >= 2

\* C8: a startup failure (device open or configuration, socket creation, bind
\* or listen) is fatal: main() goes to cleanup_and_exit and never enters the
\* capture loop, so no device read happens, no consumer is accepted and no
\* snapshot is sent.
C8_StartupFailureIsFatal ==
    cause = "startup" =>
        /\ pc \in CleanupPcs
        /\ read_calls = 0 /\ written = 0
        /\ client_fd = -1 /\ peer = "none"
        /\ sent_ts = <<>> /\ wire = <<>>

\* C8 witness: the process has exited after a startup failure.
C8_StartupFailedAndExited ==
    cause = "startup" /\ proc = "exited"

\* C9: for every snapshot sent whole, the bytes written are exactly the 20
\* header bytes timestamp(8) sample_rate(4) buffer_length(4) channels(4)
\* immediately followed by the samples, and decoding them by this layout
\* gives back the header fields and the sample sequence.
C9_WireLayoutRoundTrip ==
    snapshot.complete =>
        LET d == DecodeSnapshot(wire)
        IN /\ Len(wire) = d.length
           /\ d.header = snapshot.header
           /\ d.samples = snapshot.samples

\* C10: the header timestamps of the snapshots are strictly increasing in the
\* order the snapshots are sent, whatever the clock reads.
C10_TimestampsStrictlyIncrease ==
    \A i \in 1..(Len(sent_ts) - 1) : sent_ts[i] < sent_ts[i + 1]

\* Frames captured since the previous snapshot was taken (since the start
\* before the first one).
FramesSinceSnapshot == written - snapshot.written

\* One second of audio in frames, as the whole reads of the loop deliver it.
CadenceFrames == SendThreshold(SAMPLE_RATE, FRAMES_PER_BUFFER) * FRAMES_PER_BUFFER

\* C11: snapshot cadence follows the accumulated frame count: the loop goes
\* to send a snapshot when, and only when, the frames captured since the
\* previous snapshot reach one second of audio, so short reads do not bring a
\* snapshot forward.
C11_CadenceFollowsFrameCount ==
    /\ pc = "send_header" => FramesSinceSnapshot >= CadenceFrames
    /\ pc = "read" => FramesSinceSnapshot < CadenceFrames

\* C12: the socket path is removed before bind, so no stale file is there
\* when bind runs, and it no longer exists once the process has terminated,
\* by whichever path.  Stated for the runs in which no signal arrives, where
\* the process ends by a startup error, a read failure or a failed send.
C12_SocketPathRemoved ==
    /\ pc = "sock_bind" => path = "none"
    /\ (proc # "running" /\ signals = 0) => path = "none"

\* Everything cleanup_and_exit releases is released and the process exited.
ExitedClean ==
    /\ proc = "exited" /\ exit_status = 0
    /\ capture_handle = "NULL" /\ socket_fd = -1 /\ client_fd = -1
    /\ path = "none"

C14_OneConsumerAtATime ==
    [][(backlog' < backlog /\ listening')
         => (client_fd = -1 /\ peer = "none" /\ client_fd' >= 0 /\ peer' = "open")]_vars

\* A second consumer has connected while the first is served: it waits in
\* the listen queue.
C14_SecondConsumerWaits ==
    /\ Serving /\ pc = "read"
    /\ client_fd >= 0 /\ peer = "open"
    /\ backlog = 1

\* What the ring buffer holds once w samples were captured: at each index
\* the latest sample stored there, 0 (the memset) where none was.
RingAfter(w) ==
    [i \in 0..(rolling_buffer_size - 1) |->
        LET ks == {k \in 1..w : (k - 1) % rolling_buffer_size = i}
        IN IF ks = {} THEN 0
           ELSE PcmSample(CHOOSE k \in ks : \A m \in ks : m <= k)]

\* C15: a snapshot payload is the ring buffer of one instant: from the
\* moment the snapshot is taken (its header is filled) to the end of its
\* transmission no step writes the ring buffer or moves the cursor, and a
\* transmitted payload is, slot by slot, the buffer as it was when the
\* snapshot was taken.
C15_PayloadIsOneBufferState ==
    [][/\ pc \in SendPcs =>
            /\ rolling_buffer' = rolling_buffer
            /\ rolling_buffer_pos' = rolling_buffer_pos
            /\ written' = written
       /\ snapshot'.complete =>
            \A i \in 1..Len(snapshot'.samples) :
                snapshot'.samples[i] = RingAfter(snapshot'.written)[i - 1]]_vars

\* A second snapshot went out whole, after the buffer had wrapped.
C15_SecondSnapshotSent ==
    /\ snapshot.complete /\ Len(sent_ts) = 2
    /\ Len(snapshot.samples) = rolling_buffer_size
    /\ snapshot.written > rolling_buffer_size

\* The payload p is in capture order: the last rolling_buffer_size of the w
\* samples captured, oldest first.
Chronological(p, w) ==
    \A i \in 1..rolling_buffer_size : p[i] = PcmSample(w - rolling_buffer_size + i)

\* C20: a snapshot payload is the ring buffer in physical index order from
\* index 0: once the buffer has filled, the j-th oldest retained sample is at
\* payload offset (cursor + j) mod size, the oldest at the write cursor of
\* the moment of the send, and the payload is in capture order exactly when
\* that cursor is 0.
C20_PayloadInPhysicalOrder ==
    [][(snapshot'.complete /\ ~snapshot.complete /\ written >= rolling_buffer_size)
         => /\ Len(snapshot'.samples) = rolling_buffer_size
            /\ \A j \in 0..(rolling_buffer_size - 1) :
                 snapshot'.samples[((rolling_buffer_pos + j) % rolling_buffer_size) + 1]
                     = PcmSample(written - rolling_buffer_size + 1 + j)
            /\ Chronological(snapshot'.samples, written) <=> rolling_buffer_pos = 0]_vars

\* A payload sent with the cursor in the middle of the buffer: its first
\* sample is not the oldest one.
C20_PayloadSentRotated ==
    /\ snapshot.complete
    /\ snapshot.written > rolling_buffer_size
    /\ snapshot.written % rolling_buffer_size # 0
    /\ ~Chronological(snapshot.samples, snapshot.written)

\* -------------------------------------------- the detector's properties
\* The step evaluates a peak; ThePeak is that peak.
PeakStep == Len(detector'.peaks) = Len(detector.peaks) + 1
ThePeak == detector'.peaks[Len(detector'.peaks)]

\* Going by the events emitted so far: time t is less than
\* alert_cooldown_sec after the latest event.
CoolingDown(events, t) ==
    events # <<>> /\ t - events[Len(events)].t < ALERT_COOLDOWN_SEC

\* C16: threshold gating: a peak strictly below threshold_db produces no
\* event and leaves the cooldown deadline and the repetition queue as they
\* were, in cooldown or out of it.
C16_ThresholdGating ==
    [][(PeakStep /\ ThePeak.db < THRESHOLD_DB)
         => /\ detector'.events = detector.events
            /\ detector'.queue = detector.queue
            /\ detector'.cooldown_until = detector.cooldown_until]_vars

\* Below-threshold peaks were evaluated both during a cooldown, with peaks
\* waiting in the queue, and outside any.
C16_QuietPeaksBothWays ==
    /\ detector.queue # <<>>
    /\ \E i, j \in DOMAIN detector.peaks :
         /\ detector.peaks[i].db < THRESHOLD_DB
         /\ detector.peaks[j].db < THRESHOLD_DB
         /\ \E k \in DOMAIN detector.events :
              /\ detector.events[k].t < detector.peaks[i].t
              /\ detector.peaks[i].t - detector.events[k].t < ALERT_COOLDOWN_SEC
         /\ \A k \in DOMAIN detector.events :
              \/ detector.events[k].t > detector.peaks[j].t
              \/ detector.peaks[j].t - detector.events[k].t >= ALERT_COOLDOWN_SEC

\* C17: cooldown suppression: an over-threshold peak less than
\* alert_cooldown_sec after the previous event is recorded in the queue and
\* emits nothing; events are emitted only by the evaluation of an
\* over-threshold peak, one at a time, and never less than
\* alert_cooldown_sec after the previous one.
C17_CooldownSuppression ==
    [][/\ (PeakStep /\ ThePeak.db >= THRESHOLD_DB
              /\ CoolingDown(detector.events, ThePeak.t))
           => /\ detector'.events = detector.events
              /\ detector'.queue = Append(detector.queue, ThePeak.t)
       /\ detector'.events # detector.events
           => /\ PeakStep /\ ThePeak.db >= THRESHOLD_DB
              /\ Len(detector'.events) = Len(detector.events) + 1
              /\ SubSeq(detector'.events, 1, Len(detector.events)) = detector.events
              /\ detector'.events[Len(detector'.events)].t = ThePeak.t
              /\ ~CoolingDown(detector.events, ThePeak.t)]_vars

\* Two over-threshold peaks one second apart gave one event, and a later
\* peak, past the cooldown, gave the next.
C17_SuppressedThenEmitted ==
    /\ Len(detector.peaks) >= 3 /\ Len(detector.events) = 2
    /\ \A i \in 1..3 : detector.peaks[i].db >= THRESHOLD_DB
    /\ detector.peaks[2].t - detector.peaks[1].t < ALERT_COOLDOWN_SEC
    /\ detector.events[1].t = detector.peaks[1].t
    /\ detector.events[2].t = detector.peaks[3].t

\* The over-threshold peaks of ps that count at time t: those after the
\* latest alert of events and no older than repetition_window_sec.
Qualifying(ps, events, t) ==
    LET alerts == {events[k].t : k \in {k \in DOMAIN events : events[k].kind = "alert"}}
    IN {i \in DOMAIN ps :
          /\ ps[i].db >= THRESHOLD_DB
          /\ t - ps[i].t <= REPETITION_WINDOW_SEC
          /\ \A a \in alerts : ps[i].t > a}

\* Peaks of 5 dB over the threshold at the times of ts.
PeaksAt(ts) == [i \in DOMAIN ts |-> [t |-> ts[i], db |-> THRESHOLD_DB + 5]]

\* C18: repetition to alert: an over-threshold peak evaluated outside
\* cooldown emits exactly one event and starts the cooldown: an alert, with
\* the queue cleared, when the over-threshold peaks since the last alert and
\* within repetition_window_sec (those of cooldowns included) number at
\* least repetition_threshold, a warning otherwise.  With the documented
\* configuration, peaks of -35 dB at 0, 4 and 8 s give one alert, at 8 s.
C18_RepetitionToAlert ==
    [][/\ (PeakStep /\ ThePeak.db >= THRESHOLD_DB
              /\ ~CoolingDown(detector.events, ThePeak.t))
           => LET t == ThePeak.t
                  n == Cardinality(Qualifying(detector'.peaks, detector.events, t))
              IN /\ detector'.cooldown_until = t + ALERT_COOLDOWN_SEC
                 /\ IF n >= detector.repetition_threshold
                    THEN /\ detector'.events
                              = Append(detector.events, [t |-> t, kind |-> "alert"])
                         /\ detector'.queue = <<>>
                    ELSE detector'.events
                              = Append(detector.events, [t |-> t, kind |-> "warning"])
       /\ (detector'.repetition_threshold = 3 /\ detector'.peaks = PeaksAt(<<0, 4, 8>>))
           => detector'.events = << [t |-> 0, kind |-> "warning"],
                                    [t |-> 8, kind |-> "alert"] >>]_vars

\* The documented scenario has run: peaks at 0, 4 and 8 s, the alert at 8 s.
C18_AlertAtEightSeconds ==
    /\ detector.repetition_threshold = REPETITION_THRESHOLD
    /\ detector.peaks = PeaksAt(<<0, 4, 8>>)
    /\ detector.events[Len(detector.events)] = [t |-> 8, kind |-> "alert"]
    /\ detector.queue = <<>>

\* The over-threshold peaks given so far, in order.
OverPeaks == SelectSeq(detector.peaks, LAMBDA pk : pk.db >= THRESHOLD_DB)

\* C19: window expiry: with repetition_threshold at least 2, when the
\* over-threshold peaks are spaced by more than repetition_window_sec, none
\* gives an alert: each gives a warning, and the queue holds no more than
\* the latest timestamp.
C19_WindowExpiry ==
    (/\ detector.repetition_threshold >= 2
     /\ \A i \in 1..(Len(OverPeaks) - 1) :
          OverPeaks[i + 1].t - OverPeaks[i].t > REPETITION_WINDOW_SEC)
    => /\ detector.events
            = [i \in DOMAIN OverPeaks |-> [t |-> OverPeaks[i].t, kind |-> "warning"]]
       /\ Len(detector.queue) <= 1

\* Identical peaks at 0, 15 and 30 s have given three warnings.
C19_ThreeWarnings ==
    /\ detector.repetition_threshold >= 2
    /\ detector.peaks = PeaksAt(<<0, 15, 30>>)
    /\ Len(detector.events) = 3
    /\ \A i \in 1..3 : detector.events[i].kind = "warning"

\* Every read so far returned the frames asked for.
AllReadsFull == cadence.written = cadence.reads * CompiledFramesPerBuffer * CHANNELS

\* C21: a snapshot is sent after every 21st successful read whatever the
\* reads returned and carries 44100 samples; when every read is full, the
\* k-th send comes after k * 43008 samples with the cursor at
\* (k * 43008) mod 44100, the first payload holds 1092 zeros that were never
\* captured and each later payload shares 1092 samples with the one before.
C21_SnapshotEvery21Reads ==
    /\ cadence.chunks_processed <= 21
    /\ \A k \in DOMAIN cadence.sends :
         LET sent == cadence.sends[k]
         IN /\ sent.reads = 21 * k
            /\ sent.length = 44100
            /\ sent.written = sent.reads * CompiledFramesPerBuffer * CHANNELS
                 => /\ sent.written = k * 43008
                    /\ sent.pos = (k * 43008) % 44100
                    /\ k = 1 => sent.zeros = 1092
                    /\ k > 1 => (sent.zeros = 0 /\ sent.shared = 1092)
    /\ cadence.reads = 21 * Len(cadence.sends) + cadence.chunks_processed

\* Two snapshots went out after 42 full reads.
C21_TwoSnapshotsOfFullReads ==
    /\ Len(cadence.sends) = 2
    /\ AllReadsFull
    /\ cadence.sends[1].zeros = 1092
    /\ cadence.sends[2].shared = 1092
    /\ cadence.sends[2].pos = 41916

\* C22: every termination through cleanup_and_exit ends the process with
\* exit status 0, whether it was requested by a signal or follows a failed
\* startup step, a failed accept, a hard read failure or a failed send.
C22_ExitStatusAlwaysZero ==
    proc = "exited" =>
        /\ exit_status = 0
        /\ cause \in {"startup", "accept", "read_error", "send_error"} \/ handler_teardown

\* The process exited on its own after the accept failed, no signal sent:
\* main() had called cleanup_and_exit(1).
C22_ExitedAfterFailedAccept ==
    /\ proc = "exited" /\ exit_status = 0
    /\ cause = "accept" /\ signals = 0

\* The step is the unlink(SOCKET_PATH) of cleanup_and_exit.
UnlinkStep ==
    /\ proc = "running" /\ proc' = "running"
    /\ CurPc = "c_unlink" /\ CurPc' = "c_exit"
    /\ Len(handlers') = Len(handlers)

\* C23: cleanup removes the socket path unconditionally: whatever is at the
\* path when cleanup_and_exit reaches its unlink is removed, the file of
\* another process included, and also when startup failed before this
\* process bound its socket.
C23_CleanupUnlinksUnconditionally ==
    [][UnlinkStep => path' = "none"]_vars

\* The device could not be opened, main() is in cleanup_and_exit at the
\* unlink, no socket was ever created, and a file this process did not
\* create is at the path.
C23_ForeignFileAtUnlink ==
    /\ proc = "running" /\ ~InHandler /\ pc = "c_unlink"
    /\ cause = "startup"
    /\ released["socket"] = 0 /\ socket_fd = -1 /\ capture_handle = "NULL"
    /\ path = "foreign"

====
